---- MODULE Spec2Model ----
(***************************************************************************)
(* The room state machine of the card-game backend.  Two variants of the  *)
(* server exist in the repository: src/unnamed/part_000 (staged draws,    *)
(* two jokers, tie elimination, WINNER status) and src/server.js (client- *)
(* supplied replacement card, one joker, single elimination).  The        *)
(* variable `variant` says which of the two programs is running; every    *)
(* socket.io handler of either program is one action.                     *)
(*                                                                         *)
(* rooms maps the codes of the live rooms to their state; connected holds  *)
(* the ids of the open sockets and nextSocket the next fresh id; emitted   *)
(* is the sequence of signals the last handler sent; err is "none" until a *)
(* handler raises (or never returns), which ends the Node process;        *)
(* decksBuilt counts the calls of createDeck; shows[r] counts the shows    *)
(* resolved in room r since its players last changed.                     *)
(***************************************************************************)
EXTENDS Integers, Sequences, FiniteSets, TLC

VARIABLES variant, rooms, nextSocket, connected, decksBuilt, emitted, err, shows

vars == <<variant, rooms, nextSocket, connected, decksBuilt, emitted, err, shows>>

(* ------------------------------ bounds -------------------------------- *)
\* number of socket connections the server ever accepts
NumSockets == 2
\* join_room is not taken once a room holds this many player entries
MaxPlayers == 2
\* number of distinct outcomes of the random shuffle that are explored
NumShuffles == 2
\* number of decks createDeck builds in one run of the server (decksBuilt
\* counts them); a request that needs one more deck is not issued
MaxDecks == 2

\* the one room code Math.random is taken to produce
RoomIds == {"R1"}
\* the roundLimit values of the create_room payloads that are explored
RoundLimitInputs == {1, 2}

(* ------------------------------ cards --------------------------------- *)
\* JavaScript null and undefined, where a card is expected
NullCard == [suit |-> "null", rank |-> "null", id |-> "null"]
UndefinedCard == [suit |-> "undefined", rank |-> "undefined", id |-> "undefined"]

\* the suits and ranks of createDeck, cut down to two suits and three ranks
\* (an ace, a numeric rank and a face rank) to keep the deck small
suits == <<"S", "C">>
ranks == <<"A", "2", "K">>

\* the ranked cards in the order the nested loops push them; the random id
\* of a card is modelled by its suit and rank
RankedCards ==
    [i \in 1..(Len(suits) * Len(ranks)) |->
        [suit |-> suits[((i - 1) \div Len(ranks)) + 1],
         rank |-> ranks[((i - 1) % Len(ranks)) + 1],
         id   |-> suits[((i - 1) \div Len(ranks)) + 1] \o ranks[((i - 1) % Len(ranks)) + 1]]]

Joker1 == [suit |-> "Jk", rank |-> "Joker", id |-> "Joker1"]
Joker2 == [suit |-> "Jk", rank |-> "Joker", id |-> "Joker2"]

\* deck.sort(() => Math.random() - 0.5): the k-th explored outcome of the
\* shuffle is the rotation of the built deck by k places
Shuffle(d, k) ==
    [i \in 1..Len(d) |-> d[((i - 1 + Len(d) - (k % Len(d))) % Len(d)) + 1]]

\* createDeck of part_000: ranked cards and two jokers, shuffled
createDeck(k) == Shuffle(RankedCards \o <<Joker1, Joker2>>, k)

\* createDeck of server.js: ranked cards and one joker, shuffled
createDeckSrv(k) == Shuffle(RankedCards \o <<Joker1>>, k)

\* Array.prototype.pop: the last element (undefined when empty) and the rest
PopCard(d) == IF Len(d) = 0 THEN UndefinedCard ELSE d[Len(d)]
PopRest(d) == IF Len(d) = 0 THEN d ELSE SubSeq(d, 1, Len(d) - 1)

\* parseInt(card.rank) for the numeric ranks
parseIntRank(r) ==
    CASE r = "2" -> 2 [] r = "3" -> 3 [] r = "4" -> 4 [] r = "5" -> 5
      [] r = "6" -> 6 [] r = "7" -> 7 [] r = "8" -> 8 [] r = "9" -> 9
      [] r = "10" -> 10

\* the points of one card in part_000 (falsy cards are skipped)
CardPoints(card, openJokerRank) ==
    IF card = UndefinedCard \/ card = NullCard THEN 0
    ELSE IF card.rank = "Joker" \/ card.rank = openJokerRank THEN 0
    ELSE IF card.rank \in {"J", "Q", "K"} THEN 10
    ELSE IF card.rank = "A" THEN 1
    ELSE parseIntRank(card.rank)

\* the points of one card in server.js: face cards count 15
CardPointsSrv(card, openJokerRank) ==
    IF card = UndefinedCard \/ card = NullCard THEN 0
    ELSE IF card.rank = "Joker" \/ card.rank = openJokerRank THEN 0
    ELSE IF card.rank \in {"J", "Q", "K"} THEN 15
    ELSE IF card.rank = "A" THEN 1
    ELSE parseIntRank(card.rank)

RECURSIVE calculateScore(_, _)
calculateScore(hand, openJokerRank) ==
    IF Len(hand) = 0 THEN 0
    ELSE calculateScore(SubSeq(hand, 1, Len(hand) - 1), openJokerRank)
         + CardPoints(hand[Len(hand)], openJokerRank)

RECURSIVE calculateScoreSrv(_, _)
calculateScoreSrv(hand, openJokerRank) ==
    IF Len(hand) = 0 THEN 0
    ELSE calculateScoreSrv(SubSeq(hand, 1, Len(hand) - 1), openJokerRank)
         + CardPointsSrv(hand[Len(hand)], openJokerRank)

(* --------------------------- array helpers ----------------------------- *)
\* indices are 0-based as in the code; players[i] is ps[i + 1]
Idx(ps) == 0..(Len(ps) - 1)

\* Array.prototype.findIndex(p => p.id === id): -1 when there is none
FindIndexById(ps, id) ==
    IF \E i \in Idx(ps) : ps[i + 1].id = id
    THEN CHOOSE i \in Idx(ps) :
            ps[i + 1].id = id /\ \A j \in Idx(ps) : ps[j + 1].id = id => i <= j
    ELSE -1

\* players.findIndex(p => !p.eliminated)
FirstActive(ps) ==
    IF \E i \in Idx(ps) : ~ps[i + 1].eliminated
    THEN CHOOSE i \in Idx(ps) :
            ~ps[i + 1].eliminated /\ \A j \in Idx(ps) : ~ps[j + 1].eliminated => i <= j
    ELSE -1

\* the indices of the non-eliminated players
Active(ps) == {i \in Idx(ps) : ~ps[i + 1].eliminated}

\* Math.min(...xs) and Math.max(...xs) over a non-empty set of integers
MinOf(S) == CHOOSE x \in S : \A y \in S : x <= y
MaxOf(S) == CHOOSE x \in S : \A y \in S : x >= y

\* players.splice(i, 1)
RemoveAt(ps, i) == [j \in 1..(Len(ps) - 1) |-> IF j <= i THEN ps[j] ELSE ps[j + 1]]

\* parseInt(roundLimit) || 5, where 0 stands for every falsy parse (0, NaN)
ParseRoundLimit(x) == IF x = 0 THEN 5 ELSE x

\* the player entry pushed by create_room and join_room (the username, which
\* no handler reads back, is left out; server.js has no currentDrawnCard and
\* its entries keep the field null)
NewPlayer(sid) ==
    [id |-> sid, hand |-> <<>>, totalScore |-> 0, eliminated |-> FALSE,
     currentDrawnCard |-> NullCard]

\* rooms[rid] = room
SetRoom(rid, room) == [r \in DOMAIN rooms \cup {rid} |-> IF r = rid THEN room ELSE rooms[r]]

\* a handler that returns early: nothing changes, nothing is emitted
Rejected == /\ emitted' = <<>>
            /\ UNCHANGED <<variant, rooms, nextSocket, connected, decksBuilt, err, shows>>

\* a handler that raises: the exception is uncaught and ends the process
Throws(e) == /\ err' = e
             /\ emitted' = <<>>
             /\ UNCHANGED <<variant, rooms, nextSocket, connected, decksBuilt, shows>>

Running(v) == variant = v /\ err = "none"

(* ------------------------------- Init ---------------------------------- *)
Init ==
    /\ variant \in {"part_000", "server"}
    /\ rooms = [r \in {} |-> 0]
    /\ nextSocket = 1
    /\ connected = {}
    /\ decksBuilt = 0
    /\ emitted = <<>>
    /\ err = "none"
    /\ shows = [r \in RoomIds |-> 0]

\* the highest value shows is counted up to: the resolutions a room of
\* MaxPlayers players needs at the highest round limit
ShowsCap == MaxOf(RoundLimitInputs) * (MaxPlayers - 1)

\* shows after a departure of sid: the count of every room sid was in starts
\* again
ShowsAfterLeave(sid) ==
    [r \in RoomIds |->
        IF r \in DOMAIN rooms /\ FindIndexById(rooms[r].players, sid) # -1
        THEN 0 ELSE shows[r]]

\* io.on('connection'): a new socket with a fresh id
connection ==
    /\ err = "none"
    /\ nextSocket <= NumSockets
    /\ connected' = connected \cup {nextSocket}
    /\ nextSocket' = nextSocket + 1
    /\ emitted' = <<>>
    /\ UNCHANGED <<variant, rooms, decksBuilt, err, shows>>

(* ------------------------ src/unnamed/part_000 ------------------------- *)
\* the random room code is taken to be one that no live room has
create_room(sid, rid, roundLimit) ==
    /\ Running("part_000")
    /\ rid \notin DOMAIN rooms
    /\ rooms' = SetRoom(rid,
          [players |-> <<NewPlayer(sid)>>, deck |-> <<>>, openJoker |-> NullCard,
           turn |-> 0, status |-> "LOBBY", hostId |-> sid,
           roundLimit |-> ParseRoundLimit(roundLimit), currentRound |-> 1])
    /\ emitted' = <<"room_data">>
    /\ shows' = [shows EXCEPT ![rid] = 0]
    /\ UNCHANGED <<variant, nextSocket, connected, decksBuilt, err>>

join_room(sid, rid) ==
    /\ Running("part_000")
    /\ IF rid \notin DOMAIN rooms
       THEN emitted' = <<"error_msg">> /\ UNCHANGED <<variant, rooms, nextSocket, connected, decksBuilt, err, shows>>
       ELSE IF rooms[rid].status # "LOBBY" /\ rooms[rid].status # "WINNER"
       THEN emitted' = <<"error_msg">> /\ UNCHANGED <<variant, rooms, nextSocket, connected, decksBuilt, err, shows>>
       ELSE /\ Len(rooms[rid].players) < MaxPlayers
            /\ rooms' = SetRoom(rid,
                  [rooms[rid] EXCEPT !.players = Append(@, NewPlayer(sid))])
            /\ emitted' = <<"room_data">>
            /\ shows' = [shows EXCEPT ![rid] = 0]
            /\ UNCHANGED <<variant, nextSocket, connected, decksBuilt, err>>

\* the forEach of start_game from the i-th player on: every player's staging
\* slot is cleared, a non-eliminated player pops three cards off the deck, an
\* eliminated player's hand is emptied; yields the players and the deck left
RECURSIVE DealFrom(_, _, _)
DealFrom(ps, d, i) ==
    IF i > Len(ps) THEN <<ps, d>>
    ELSE IF ps[i].eliminated
    THEN DealFrom([ps EXCEPT ![i].hand = <<>>, ![i].currentDrawnCard = NullCard], d, i + 1)
    ELSE DealFrom(
            [ps EXCEPT ![i].hand = <<PopCard(d), PopCard(PopRest(d)),
                                     PopCard(PopRest(PopRest(d)))>>,
                       ![i].currentDrawnCard = NullCard],
            PopRest(PopRest(PopRest(d))), i + 1)

StartedRoom(room, k) ==
    LET d0 == createDeck(k)
        dealt == DealFrom(room.players, PopRest(d0), 1)
    IN  [room EXCEPT !.deck = dealt[2],
                     !.openJoker = PopCard(d0),
                     !.status = "PLAYING",
                     !.players = dealt[1],
                     !.turn = FirstActive(dealt[1])]

start_game(sid, rid, k) ==
    /\ Running("part_000")
    /\ IF rid \notin DOMAIN rooms \/ rooms[rid].hostId # sid
       THEN Rejected
       ELSE /\ decksBuilt < MaxDecks
            /\ rooms' = SetRoom(rid, StartedRoom(rooms[rid], k))
            /\ decksBuilt' = decksBuilt + 1
            /\ emitted' = <<"room_data">>
            /\ UNCHANGED <<variant, nextSocket, connected, err, shows>>

\* the cardToDiscardId values of a replace_card payload: the id of one card
\* and an id no card has
DiscardIds == {"CK", "nocard"}

draw_card(sid, rid, k) ==
    /\ Running("part_000")
    /\ IF rid \notin DOMAIN rooms THEN Rejected
       ELSE LET room == rooms[rid] IN
       IF room.turn \notin Idx(room.players) THEN Throws("TypeError: players[turn] is undefined")
       ELSE IF room.players[room.turn + 1].id # sid THEN Rejected
       ELSE LET d == IF Len(room.deck) = 0 THEN createDeck(k) ELSE room.deck
                i == FindIndexById(room.players, sid)
            IN  /\ Len(room.deck) = 0 => decksBuilt < MaxDecks
                /\ rooms' = SetRoom(rid,
                      [room EXCEPT !.deck = PopRest(d),
                                   !.players[i + 1].currentDrawnCard = PopCard(d)])
                /\ decksBuilt' = IF Len(room.deck) = 0 THEN decksBuilt + 1 ELSE decksBuilt
                /\ emitted' = <<"room_data">>
                /\ UNCHANGED <<variant, nextSocket, connected, err, shows>>

\* hand.map(c => c.id === cardToDiscardId ? staged : c)
SwapCard(hand, cardToDiscardId, staged) ==
    [j \in 1..Len(hand) |-> IF hand[j].id = cardToDiscardId THEN staged ELSE hand[j]]

\* the bounded while loop of replace_card in part_000: from index t, skip
\* eliminated players while fewer than players.length skips were made
RECURSIVE SkipEliminated(_, _, _)
SkipEliminated(ps, t, attempts) ==
    IF ps[t + 1].eliminated /\ attempts < Len(ps)
    THEN SkipEliminated(ps, (t + 1) % Len(ps), attempts + 1)
    ELSE t

NextTurn(ps, turn) == SkipEliminated(ps, (turn + 1) % Len(ps), 0)

replace_card(sid, rid, cardToDiscardId) ==
    /\ Running("part_000")
    /\ IF rid \notin DOMAIN rooms THEN Rejected
       ELSE LET room == rooms[rid]
                i == FindIndexById(room.players, sid)
            IN
       IF i = -1 THEN Rejected
       ELSE IF room.players[i + 1].currentDrawnCard \in {NullCard, UndefinedCard} THEN Rejected
       ELSE IF \E j \in 1..Len(room.players[i + 1].hand) :
                  room.players[i + 1].hand[j] = UndefinedCard
       THEN Throws("TypeError: card in hand is undefined")
       ELSE /\ rooms' = SetRoom(rid,
                  [room EXCEPT
                     !.players[i + 1].hand =
                         SwapCard(@, cardToDiscardId, room.players[i + 1].currentDrawnCard),
                     !.players[i + 1].currentDrawnCard = NullCard,
                     !.turn = NextTurn(room.players, room.turn)])
            /\ emitted' = <<"room_data">>
            /\ UNCHANGED <<variant, nextSocket, connected, decksBuilt, err, shows>>

\* the score of the caller in declare_show: scores.find(s => s.id === sid),
\* the hand score of the first non-eliminated entry of the socket
CallerScore(room, sid) ==
    LET ps == room.players
        i == CHOOSE i \in Active(ps) :
                ps[i + 1].id = sid /\ \A j \in Active(ps) : ps[j + 1].id = sid => i <= j
    IN  calculateScore(ps[i + 1].hand, room.openJoker.rank)

\* ShowSucceeds with the comparison weakened to <=, so that a tie wins
ShowSucceedsOnTie(room, sid) ==
    LET ps == room.players
        otherScores == {calculateScore(ps[i + 1].hand, room.openJoker.rank) :
                            i \in {j \in Active(ps) : ps[j + 1].id # sid}}
    IN  otherScores = {} \/ CallerScore(room, sid) <= MinOf(otherScores)

\* whether the show of sid succeeds: callerScore < Math.min(...otherScores),
\* where Math.min() of no scores is Infinity
ShowSucceeds(room, sid) ==
    LET ps == room.players
        otherScores == {calculateScore(ps[i + 1].hand, room.openJoker.rank) :
                            i \in {j \in Active(ps) : ps[j + 1].id # sid}}
    IN  otherScores = {} \/ CallerScore(room, sid) < MinOf(otherScores)

\* ScoredPlayers with the penalty of a failed bluff taken as a floor of 25
ScoredPlayersFloor(room, sid) ==
    LET ps == room.players
        caller == FindIndexById(ps, sid)
    IN  IF ShowSucceeds(room, sid)
        THEN [i \in 1..Len(ps) |->
                IF ~ps[i].eliminated /\ ps[i].id # sid
                THEN [ps[i] EXCEPT !.totalScore =
                                      @ + calculateScore(ps[i].hand, room.openJoker.rank)]
                ELSE ps[i]]
        ELSE [ps EXCEPT ![caller + 1].totalScore =
                            @ + (IF CallerScore(room, sid) > 25
                                 THEN CallerScore(room, sid) ELSE 25)]

\* ScoredPlayers with the 25 points of a failed bluff taken off the caller's
\* hand score instead of added to it
ScoredPlayersRefund(room, sid) ==
    LET ps == room.players
        caller == FindIndexById(ps, sid)
    IN  IF ShowSucceeds(room, sid)
        THEN [i \in 1..Len(ps) |->
                IF ~ps[i].eliminated /\ ps[i].id # sid
                THEN [ps[i] EXCEPT !.totalScore =
                                      @ + calculateScore(ps[i].hand, room.openJoker.rank)]
                ELSE ps[i]]
        ELSE [ps EXCEPT ![caller + 1].totalScore = @ + (CallerScore(room, sid) - 25)]

\* the scoring step of declare_show in part_000, for a caller with an active
\* entry: a successful show charges every other active player its own hand,
\* a failed bluff charges the caller's first entry its score plus 25
ScoredPlayers(room, sid) ==
    LET ps == room.players
        caller == FindIndexById(ps, sid)
    IN  IF ShowSucceeds(room, sid)
        THEN [i \in 1..Len(ps) |->
                IF ~ps[i].eliminated /\ ps[i].id # sid
                THEN [ps[i] EXCEPT !.totalScore =
                                      @ + calculateScore(ps[i].hand, room.openJoker.rank)]
                ELSE ps[i]]
        ELSE [ps EXCEPT ![caller + 1].totalScore = @ + (CallerScore(room, sid) + 25)]

\* EliminatedPlayers with only the first active player at the highest total
\* eliminated
EliminatedPlayersFirstOnly(ps, currentRound, roundLimit) ==
    IF currentRound >= roundLimit
    THEN LET highestScore == MaxOf({ps[i + 1].totalScore : i \in Active(ps)})
             first == CHOOSE i \in Active(ps) :
                          /\ ps[i + 1].totalScore = highestScore
                          /\ \A j \in Active(ps) : ps[j + 1].totalScore = highestScore => i <= j
         IN  [ps EXCEPT ![first + 1].eliminated = TRUE]
    ELSE ps

\* EliminatedPlayers with the elimination held back until currentRound is
\* past the round limit
EliminatedPlayersPastLimit(ps, currentRound, roundLimit) ==
    IF currentRound > roundLimit
    THEN LET highestScore == MaxOf({ps[i + 1].totalScore : i \in Active(ps)})
         IN  [i \in 1..Len(ps) |->
                IF ~ps[i].eliminated /\ ps[i].totalScore = highestScore
                THEN [ps[i] EXCEPT !.eliminated = TRUE]
                ELSE ps[i]]
    ELSE ps

\* the round counter and elimination step of part_000: at the round limit
\* every active player at the highest total is eliminated
EliminatedPlayers(ps, currentRound, roundLimit) ==
    IF currentRound >= roundLimit
    THEN LET highestScore == MaxOf({ps[i + 1].totalScore : i \in Active(ps)})
         IN  [i \in 1..Len(ps) |->
                IF ~ps[i].eliminated /\ ps[i].totalScore = highestScore
                THEN [ps[i] EXCEPT !.eliminated = TRUE]
                ELSE ps[i]]
    ELSE ps

NextRound(currentRound, roundLimit) ==
    IF currentRound >= roundLimit THEN 1 ELSE currentRound + 1

\* StatusAfterShow with the game also ended while two players are left
StatusAfterShowAtTwo(ps) == IF Cardinality(Active(ps)) <= 2 THEN "WINNER" ELSE "LOBBY"

\* the status after a show in part_000
StatusAfterShow(ps) == IF Cardinality(Active(ps)) <= 1 THEN "WINNER" ELSE "LOBBY"

declare_show(sid, rid) ==
    /\ Running("part_000")
    /\ IF rid \notin DOMAIN rooms THEN Rejected
       ELSE LET room == rooms[rid] IN
       IF Active(room.players) # {} /\ room.openJoker = NullCard
       THEN Throws("TypeError: openJoker is null")
       ELSE IF ~\E i \in Active(room.players) : room.players[i + 1].id = sid
       THEN Throws("TypeError: caller has no score")
       ELSE LET scored == ScoredPlayers(room, sid)
                after == EliminatedPlayers(scored, room.currentRound, room.roundLimit)
            IN  /\ rooms' = SetRoom(rid,
                      [room EXCEPT !.players = after,
                                   !.currentRound = NextRound(room.currentRound, room.roundLimit),
                                   !.status = StatusAfterShow(after)])
                /\ emitted' = <<IF ShowSucceeds(room, sid) THEN "celebration" ELSE "penalty",
                                "room_data">>
                /\ shows' = [shows EXCEPT ![rid] = IF @ < ShowsCap THEN @ + 1 ELSE @]
                /\ UNCHANGED <<variant, nextSocket, connected, decksBuilt, err>>

\* the body of the disconnect loop of part_000 for one room: the first entry
\* of the socket is spliced out and the host is reassigned to players[0]
LeftRoom(room, sid) ==
    LET i == FindIndexById(room.players, sid)
        ps == RemoveAt(room.players, i)
    IN  IF i = -1 THEN room
        ELSE [room EXCEPT !.players = ps,
                          !.hostId = IF room.hostId = sid /\ Len(ps) > 0
                                     THEN ps[1].id ELSE @]

disconnect(sid) ==
    /\ Running("part_000")
    /\ rooms' = [r \in {q \in DOMAIN rooms : Len(LeftRoom(rooms[q], sid).players) > 0} |->
                    LeftRoom(rooms[r], sid)]
    /\ connected' = connected \ {sid}
    /\ emitted' = IF \E r \in DOMAIN rooms :
                         /\ FindIndexById(rooms[r].players, sid) # -1
                         /\ Len(rooms[r].players) > 1
                  THEN <<"room_data">> ELSE <<>>
    /\ shows' = ShowsAfterLeave(sid)
    /\ UNCHANGED <<variant, nextSocket, decksBuilt, err>>

(* ---------------------------- src/server.js ---------------------------- *)
\* the newCard values of a replace_card payload of server.js: a card, and
\* undefined (what the client was sent by a draw from an empty deck)
NewCards == {RankedCards[1], UndefinedCard}

create_room_srv(sid, rid, roundLimit) ==
    /\ Running("server")
    /\ rid \notin DOMAIN rooms
    /\ rooms' = SetRoom(rid,
          [players |-> <<NewPlayer(sid)>>, deck |-> <<>>, openJoker |-> NullCard,
           turn |-> 0, status |-> "LOBBY", hostId |-> sid,
           roundLimit |-> ParseRoundLimit(roundLimit), currentRound |-> 1])
    /\ emitted' = <<"room_created">>
    /\ shows' = [shows EXCEPT ![rid] = 0]
    /\ UNCHANGED <<variant, nextSocket, connected, decksBuilt, err>>

join_room_srv(sid, rid) ==
    /\ Running("server")
    /\ IF rid \notin DOMAIN rooms
       THEN emitted' = <<"error_msg">> /\ UNCHANGED <<variant, rooms, nextSocket, connected, decksBuilt, err, shows>>
       ELSE IF rooms[rid].status # "LOBBY"
       THEN emitted' = <<"error_msg">> /\ UNCHANGED <<variant, rooms, nextSocket, connected, decksBuilt, err, shows>>
       ELSE /\ Len(rooms[rid].players) < MaxPlayers
            /\ rooms' = SetRoom(rid,
                  [rooms[rid] EXCEPT !.players = Append(@, NewPlayer(sid))])
            /\ emitted' = <<"room_data">>
            /\ shows' = [shows EXCEPT ![rid] = 0]
            /\ UNCHANGED <<variant, nextSocket, connected, decksBuilt, err>>

StartedRoomSrv(room, k) ==
    LET d0 == createDeckSrv(k)
        dealt == DealFrom(room.players, PopRest(d0), 1)
    IN  [room EXCEPT !.deck = dealt[2],
                     !.openJoker = PopCard(d0),
                     !.status = "PLAYING",
                     !.turn = FirstActive(room.players),
                     !.players = dealt[1]]

start_game_srv(sid, rid, k) ==
    /\ Running("server")
    /\ IF rid \notin DOMAIN rooms \/ rooms[rid].hostId # sid
       THEN Rejected
       ELSE /\ decksBuilt < MaxDecks
            /\ rooms' = SetRoom(rid, StartedRoomSrv(rooms[rid], k))
            /\ decksBuilt' = decksBuilt + 1
            /\ emitted' = <<"room_data">>
            /\ UNCHANGED <<variant, nextSocket, connected, err, shows>>

draw_card_srv(sid, rid) ==
    /\ Running("server")
    /\ IF rid \notin DOMAIN rooms THEN Rejected
       ELSE LET room == rooms[rid] IN
       IF room.turn \notin Idx(room.players) THEN Throws("TypeError: players[turn] is undefined")
       ELSE IF room.players[room.turn + 1].id # sid THEN Rejected
       ELSE /\ rooms' = SetRoom(rid, [room EXCEPT !.deck = PopRest(@)])
            /\ emitted' = <<"card_drawn">>
            /\ UNCHANGED <<variant, nextSocket, connected, decksBuilt, err, shows>>

\* the while loop of replace_card in server.js, which has no bound: called
\* only when some player is not eliminated
RECURSIVE SkipEliminatedSrv(_, _)
SkipEliminatedSrv(ps, t) ==
    IF ps[t + 1].eliminated THEN SkipEliminatedSrv(ps, (t + 1) % Len(ps)) ELSE t

NextTurnSrv(ps, turn) == SkipEliminatedSrv(ps, (turn + 1) % Len(ps))

replace_card_srv(sid, rid, cardToDiscardId, newCard) ==
    /\ Running("server")
    /\ IF rid \notin DOMAIN rooms THEN Rejected
       ELSE LET room == rooms[rid]
                i == FindIndexById(room.players, sid)
            IN
       IF i = -1 THEN Throws("TypeError: player is undefined")
       ELSE IF \E j \in 1..Len(room.players[i + 1].hand) :
                  room.players[i + 1].hand[j] = UndefinedCard
       THEN Throws("TypeError: card in hand is undefined")
       ELSE IF Active(room.players) = {}
       THEN /\ rooms' = SetRoom(rid,
                  [room EXCEPT !.players[i + 1].hand = SwapCard(@, cardToDiscardId, newCard)])
            /\ err' = "hang: replace_card loops forever"
            /\ emitted' = <<>>
            /\ UNCHANGED <<variant, nextSocket, connected, decksBuilt, shows>>
       ELSE /\ rooms' = SetRoom(rid,
                  [room EXCEPT
                     !.players[i + 1].hand = SwapCard(@, cardToDiscardId, newCard),
                     !.turn = NextTurnSrv(room.players, room.turn)])
            /\ emitted' = <<"room_data">>
            /\ UNCHANGED <<variant, nextSocket, connected, decksBuilt, err, shows>>

\* the score of the caller in declare_show of server.js
CallerScoreSrv(room, sid) ==
    LET ps == room.players
        i == CHOOSE i \in Active(ps) :
                ps[i + 1].id = sid /\ \A j \in Active(ps) : ps[j + 1].id = sid => i <= j
    IN  calculateScoreSrv(ps[i + 1].hand, room.openJoker.rank)

\* whether the show of sid succeeds in server.js
ShowSucceedsSrv(room, sid) ==
    LET ps == room.players
        otherScores == {calculateScoreSrv(ps[i + 1].hand, room.openJoker.rank) :
                            i \in {j \in Active(ps) : ps[j + 1].id # sid}}
    IN  otherScores = {} \/ CallerScoreSrv(room, sid) < MinOf(otherScores)

\* the scoring step of declare_show in server.js: a failed bluff charges the
\* caller's first entry Math.max(callerScore, 25)
ScoredPlayersSrv(room, sid) ==
    LET ps == room.players
        caller == FindIndexById(ps, sid)
    IN  IF ShowSucceedsSrv(room, sid)
        THEN [i \in 1..Len(ps) |->
                IF ~ps[i].eliminated /\ ps[i].id # sid
                THEN [ps[i] EXCEPT !.totalScore =
                                      @ + calculateScoreSrv(ps[i].hand, room.openJoker.rank)]
                ELSE ps[i]]
        ELSE [ps EXCEPT ![caller + 1].totalScore =
                            @ + (IF CallerScoreSrv(room, sid) > 25
                                 THEN CallerScoreSrv(room, sid) ELSE 25)]

\* the elimination step of server.js: at the round limit the first active
\* player holding the highest total (above -1) is eliminated
EliminatedPlayersSrv(ps, currentRound, roundLimit) ==
    IF currentRound >= roundLimit /\ \E i \in Active(ps) : ps[i + 1].totalScore > -1
    THEN LET top == CHOOSE i \in Active(ps) :
                      /\ \A j \in Active(ps) : ps[j + 1].totalScore <= ps[i + 1].totalScore
                      /\ \A j \in Active(ps) :
                            ps[j + 1].totalScore = ps[i + 1].totalScore => i <= j
         IN  [ps EXCEPT ![top + 1].eliminated = TRUE]
    ELSE ps

declare_show_srv(sid, rid) ==
    /\ Running("server")
    /\ IF rid \notin DOMAIN rooms THEN Rejected
       ELSE LET room == rooms[rid] IN
       IF Active(room.players) # {} /\ room.openJoker = NullCard
       THEN Throws("TypeError: openJoker is null")
       ELSE IF ~\E i \in Active(room.players) : room.players[i + 1].id = sid
       THEN Throws("TypeError: caller has no score")
       ELSE LET scored == ScoredPlayersSrv(room, sid)
                after == EliminatedPlayersSrv(scored, room.currentRound, room.roundLimit)
            IN  /\ rooms' = SetRoom(rid,
                      [room EXCEPT !.players = after,
                                   !.currentRound = NextRound(room.currentRound, room.roundLimit),
                                   !.status = "LOBBY"])
                /\ emitted' = (IF ShowSucceedsSrv(room, sid) THEN <<"celebration">> ELSE <<>>)
                              \o (IF after # scored THEN <<"player_eliminated">> ELSE <<>>)
                              \o <<"room_data">>
                /\ shows' = [shows EXCEPT ![rid] = IF @ < ShowsCap THEN @ + 1 ELSE @]
                /\ UNCHANGED <<variant, nextSocket, connected, decksBuilt, err>>

\* players.filter(p => p.id !== socket.id)
WithoutSocket(ps, sid) == SelectSeq(ps, LAMBDA p : p.id # sid)

\* the disconnecting handler of server.js: in every room the socket is in,
\* all its entries are filtered out; an emptied room is deleted
disconnecting_srv(sid) ==
    /\ Running("server")
    /\ rooms' = [r \in {q \in DOMAIN rooms : Len(WithoutSocket(rooms[q].players, sid)) > 0} |->
                    [rooms[r] EXCEPT !.players = WithoutSocket(@, sid)]]
    /\ connected' = connected \ {sid}
    /\ emitted' = IF \E r \in DOMAIN rooms :
                         /\ FindIndexById(rooms[r].players, sid) # -1
                         /\ Len(WithoutSocket(rooms[r].players, sid)) > 0
                  THEN <<"room_data">> ELSE <<>>
    /\ shows' = ShowsAfterLeave(sid)
    /\ UNCHANGED <<variant, nextSocket, decksBuilt, err>>

NextServer ==
    \/ \E sid \in connected, rid \in RoomIds, rl \in RoundLimitInputs : create_room_srv(sid, rid, rl)
    \/ \E sid \in connected, rid \in RoomIds : join_room_srv(sid, rid)
    \/ \E sid \in connected, rid \in RoomIds, k \in 0..(NumShuffles - 1) : start_game_srv(sid, rid, k)
    \/ \E sid \in connected, rid \in RoomIds : draw_card_srv(sid, rid)
    \/ \E sid \in connected, rid \in RoomIds, c \in DiscardIds, n \in NewCards :
            replace_card_srv(sid, rid, c, n)
    \/ \E sid \in connected, rid \in RoomIds : declare_show_srv(sid, rid)
    \/ \E sid \in connected : disconnecting_srv(sid)

NextPart000 ==
    \/ \E sid \in connected, rid \in RoomIds, rl \in RoundLimitInputs : create_room(sid, rid, rl)
    \/ \E sid \in connected, rid \in RoomIds : join_room(sid, rid)
    \/ \E sid \in connected, rid \in RoomIds, k \in 0..(NumShuffles - 1) : start_game(sid, rid, k)
    \/ \E sid \in connected, rid \in RoomIds, k \in 0..(NumShuffles - 1) : draw_card(sid, rid, k)
    \/ \E sid \in connected, rid \in RoomIds, c \in DiscardIds : replace_card(sid, rid, c)
    \/ \E sid \in connected, rid \in RoomIds : declare_show(sid, rid)
    \/ \E sid \in connected : disconnect(sid)

Next == connection \/ NextPart000 \/ NextServer

\* either program
Spec == Init /\ [][Next]_vars

\* src/unnamed/part_000 alone
InitPart000 == Init /\ variant = "part_000"
SpecPart000 == InitPart000 /\ [][connection \/ NextPart000]_vars

\* src/server.js alone
InitServer == Init /\ variant = "server"
SpecServer == InitServer /\ [][connection \/ NextServer]_vars

(* ----------------------------- properties ------------------------------ *)
\* whether the handler that just ran emitted the signal
Emits(e, sig) == \E n \in 1..Len(e) : e[n] = sig

\* the hand score of players[i] under the scoring function of the variant
HandScore(room, i) ==
    IF variant = "part_000"
    THEN calculateScore(room.players[i + 1].hand, room.openJoker.rank)
    ELSE calculateScoreSrv(room.players[i + 1].hand, room.openJoker.rank)

\* the first non-eliminated entry of the socket: the hand the caller shows
CallerEntry(room, sid) ==
    CHOOSE i \in Active(room.players) :
        /\ room.players[i + 1].id = sid
        /\ \A j \in Active(room.players) : room.players[j + 1].id = sid => i <= j

\* the caller's score is strictly below that of every other active player
StrictlyLowest(room, sid) ==
    \A i \in Active(room.players) :
        room.players[i + 1].id # sid
            => HandScore(room, CallerEntry(room, sid)) < HandScore(room, i)

\* a declare_show of sid on rid that was resolved (neither rejected nor raised)
ShowResolved(sid, rid) ==
    /\ declare_show(sid, rid) \/ declare_show_srv(sid, rid)
    /\ Emits(emitted', "room_data")

\* C1: in every reachable state of part_000, a room with status PLAYING has
\* turn a valid index into players and players[turn] not eliminated
C1_TurnIndexesActivePlayer ==
    \A rid \in DOMAIN rooms :
        (variant = "part_000" /\ rooms[rid].status = "PLAYING")
            => /\ rooms[rid].turn \in Idx(rooms[rid].players)
               /\ ~rooms[rid].players[rooms[rid].turn + 1].eliminated

\* C2: a resolved declare_show celebrates if and only if the caller's score is
\* strictly below every other active player's; then every other active player
\* is charged exactly its own hand score, the caller and the eliminated keep
\* their totals, and below the round limit with two or more active players the
\* room ends in LOBBY with currentRound one higher
C2_SuccessfulShow ==
    [][\A sid \in connected, rid \in DOMAIN rooms :
          ShowResolved(sid, rid) =>
            LET room == rooms[rid]
                ps == room.players
                ps2 == rooms'[rid].players
            IN  /\ Emits(emitted', "celebration") <=> StrictlyLowest(room, sid)
                /\ Emits(emitted', "celebration") =>
                      /\ Len(ps2) = Len(ps)
                      /\ \A i \in Idx(ps) :
                            ps2[i + 1].totalScore =
                                IF ~ps[i + 1].eliminated /\ ps[i + 1].id # sid
                                THEN ps[i + 1].totalScore + HandScore(room, i)
                                ELSE ps[i + 1].totalScore
                      /\ (room.currentRound < room.roundLimit
                             /\ Cardinality(Active(ps)) >= 2)
                            => /\ rooms'[rid].status = "LOBBY"
                               /\ rooms'[rid].currentRound = room.currentRound + 1
      ]_vars

\* a successful show among two active players below the round limit: the
\* other player was charged its hand and the room is back in LOBBY, round 2
C2_Witness ==
    \E rid \in DOMAIN rooms :
        /\ Emits(emitted, "celebration")
        /\ rooms[rid].status = "LOBBY"
        /\ rooms[rid].currentRound = 2
        /\ Cardinality(Active(rooms[rid].players)) = 2
        /\ \E i, j \in Idx(rooms[rid].players) :
              /\ rooms[rid].players[i + 1].totalScore = 0
              /\ rooms[rid].players[j + 1].totalScore = HandScore(rooms[rid], j)
              /\ HandScore(rooms[rid], i) < HandScore(rooms[rid], j)

\* C3: in part_000 a resolved declare_show whose caller's score is greater
\* than or equal to the score of some other active player is a failed bluff:
\* the caller's total grows by exactly its score plus 25 and no other
\* player's total changes
C3_FailedBluff ==
    [][\A sid \in connected, rid \in DOMAIN rooms :
          (/\ variant = "part_000"
           /\ ShowResolved(sid, rid)
           /\ ~StrictlyLowest(rooms[rid], sid)) =>
            LET room == rooms[rid]
                ps == room.players
                ps2 == rooms'[rid].players
                c == FindIndexById(ps, sid)
            IN  /\ Emits(emitted', "penalty")
                /\ ~Emits(emitted', "celebration")
                /\ Len(ps2) = Len(ps)
                /\ \A i \in Idx(ps) :
                      ps2[i + 1].totalScore =
                          IF i = c
                          THEN ps[i + 1].totalScore
                               + HandScore(room, CallerEntry(room, sid)) + 25
                          ELSE ps[i + 1].totalScore
      ]_vars

\* a failed bluff on a tie: two players of part_000 hold equal scores, the
\* caller was charged its score plus 25 and the other was charged nothing
C3_Witness ==
    \E rid \in DOMAIN rooms :
        /\ variant = "part_000"
        /\ Emits(emitted, "penalty")
        /\ \E i, j \in Idx(rooms[rid].players) :
              /\ rooms[rid].players[i + 1].id # rooms[rid].players[j + 1].id
              /\ HandScore(rooms[rid], i) = HandScore(rooms[rid], j)
              /\ HandScore(rooms[rid], i) > 0
              /\ rooms[rid].players[i + 1].totalScore = HandScore(rooms[rid], i) + 25
              /\ rooms[rid].players[j + 1].totalScore = 0

\* the number of non-eliminated players of a room
ActiveCount(room) == Cardinality(Active(room.players))

\* C4: an elimination step never raises the number of non-eliminated players;
\* a declare_show that leaves at most one of them sets status WINNER; and in
\* a room whose status is WINNER every draw_card, replace_card and
\* declare_show leaves the room unchanged
C4_WinnerIsTerminal ==
    [][\A sid \in connected, rid \in DOMAIN rooms :
          /\ (variant = "part_000" /\ ShowResolved(sid, rid)) =>
                /\ ActiveCount(rooms'[rid]) <= ActiveCount(rooms[rid])
                /\ ActiveCount(rooms'[rid]) <= 1 => rooms'[rid].status = "WINNER"
          /\ (/\ variant = "part_000"
              /\ rooms[rid].status = "WINNER"
              /\ \/ \E k \in 0..(NumShuffles - 1) : draw_card(sid, rid, k)
                 \/ \E c \in DiscardIds : replace_card(sid, rid, c)
                 \/ declare_show(sid, rid))
                => rooms' = rooms
      ]_vars

\* C5: the status of a room changes only from LOBBY to PLAYING by start_game
\* and from PLAYING to LOBBY or WINNER by declare_show; start_game changes the
\* status only of a room in LOBBY, declare_show changes only a room that is
\* PLAYING, and nothing moves a room out of WINNER
C5_StatusMachine ==
    [][\A rid \in DOMAIN rooms \cap DOMAIN rooms' :
          /\ variant = "part_000" /\ rooms'[rid].status # rooms[rid].status =>
                \/ /\ rooms[rid].status = "LOBBY"
                   /\ rooms'[rid].status = "PLAYING"
                   /\ \E sid \in connected, k \in 0..(NumShuffles - 1) : start_game(sid, rid, k)
                \/ /\ rooms[rid].status = "PLAYING"
                   /\ rooms'[rid].status \in {"LOBBY", "WINNER"}
                   /\ \E sid \in connected : declare_show(sid, rid)
          /\ (/\ variant = "part_000"
              /\ \E sid \in connected : declare_show(sid, rid)
              /\ rooms'[rid] # rooms[rid])
                => rooms[rid].status = "PLAYING"
      ]_vars

\* C6: a replace_card changes the room only when its requester is the player
\* at index turn and holds a staged card
C6_ReplaceOnlyByTurnHolder ==
    [][\A sid \in connected, rid \in DOMAIN rooms, c \in DiscardIds :
          (variant = "part_000" /\ replace_card(sid, rid, c) /\ rooms' # rooms) =>
            /\ rooms[rid].turn \in Idx(rooms[rid].players)
            /\ rooms[rid].players[rooms[rid].turn + 1].id = sid
            /\ \E i \in Idx(rooms[rid].players) :
                  /\ rooms[rid].players[i + 1].id = sid
                  /\ rooms[rid].players[i + 1].currentDrawnCard # NullCard
      ]_vars

\* the indices of the players holding a staged card
Staging(room) == {i \in Idx(room.players) : room.players[i + 1].currentDrawnCard # NullCard}

\* C7: at most one player of a room holds a staged card, and that player is
\* the one whose turn it is
C7_OneStagedCardAtTurn ==
    \A rid \in DOMAIN rooms :
        variant = "part_000" =>
            /\ Cardinality(Staging(rooms[rid])) <= 1
            /\ \A i \in Staging(rooms[rid]) :
                  /\ rooms[rid].turn \in Idx(rooms[rid].players)
                  /\ rooms[rid].players[rooms[rid].turn + 1].id
                        = rooms[rid].players[i + 1].id

\* C8: after an accepted replace_card the new turn indexes a non-eliminated
\* player whenever one exists; with every player eliminated the request
\* changes nothing
C8_ReplaceTurnIsActive ==
    [][\A sid \in connected, rid \in DOMAIN rooms, c \in DiscardIds :
          (variant = "part_000" /\ replace_card(sid, rid, c)) =>
            IF Active(rooms[rid].players) = {}
            THEN rooms' = rooms
            ELSE Emits(emitted', "room_data") =>
                    rooms'[rid].turn \in Active(rooms'[rid].players)
      ]_vars

\* C9: openJoker is non-null in every PLAYING state, and no declare_show
\* comes to score hands against a null openJoker
C9_OpenJokerSet ==
    /\ \A rid \in DOMAIN rooms :
          rooms[rid].status = "PLAYING" => rooms[rid].openJoker # NullCard
    /\ err # "TypeError: openJoker is null"

\* C10: after a departure that leaves players behind, turn is a valid index
\* into players, and if the departed player held the turn and a non-eliminated
\* player remains, turn indexes a non-eliminated player
C10_DepartureReassignsTurn ==
    [][\A sid \in connected, rid \in DOMAIN rooms \cap DOMAIN rooms' :
          (disconnect(sid) \/ disconnecting_srv(sid)) =>
            /\ rooms'[rid].turn \in Idx(rooms'[rid].players)
            /\ (/\ rooms[rid].turn \in Idx(rooms[rid].players)
                /\ rooms[rid].players[rooms[rid].turn + 1].id = sid
                /\ Active(rooms'[rid].players) # {})
                  => rooms'[rid].turn \in Active(rooms'[rid].players)
      ]_vars

\* the entries of ps2 are entries of ps in their order (the players who
\* stayed), none with a lower total than before
StayedWithTotals(ps, ps2) ==
    \E f \in [1..Len(ps2) -> 1..Len(ps)] :
        /\ \A a, b \in 1..Len(ps2) : a < b => f[a] < f[b]
        /\ \A a \in 1..Len(ps2) :
              /\ ps2[a].id = ps[f[a]].id
              /\ ps2[a].totalScore >= ps[f[a]].totalScore

\* C11: across every step, every player who is in the room before and after
\* it has a totalScore at least as high as before, and a player who joins
\* starts at 0
C11_TotalsNeverDecrease ==
    [][\A rid \in DOMAIN rooms \cap DOMAIN rooms' :
          LET ps == rooms[rid].players
              ps2 == rooms'[rid].players
          IN  IF Len(ps2) >= Len(ps)
              THEN /\ \A i \in 1..Len(ps) :
                         /\ ps2[i].id = ps[i].id
                         /\ ps2[i].totalScore >= ps[i].totalScore
                   /\ \A i \in (Len(ps) + 1)..Len(ps2) : ps2[i].totalScore = 0
              ELSE StayedWithTotals(ps, ps2)
      ]_vars

\* a failed bluff has just raised the caller's total by less than 25 plus 25:
\* the step a refund instead of a penalty would turn into a decrease
C11_Witness ==
    \E rid \in DOMAIN rooms : \E i \in Idx(rooms[rid].players) :
        /\ Emits(emitted, "penalty")
        /\ rooms[rid].players[i + 1].totalScore > 25
        /\ rooms[rid].players[i + 1].totalScore < 50

\* C12: every non-eliminated player who was dealt a hand holds exactly three
\* cards, none of them undefined, and every eliminated player's hand is empty
C12_HandsDealtOrCleared ==
    \A rid \in DOMAIN rooms : \A i \in Idx(rooms[rid].players) :
        LET p == rooms[rid].players[i + 1]
        IN  variant = "part_000" =>
              /\ p.eliminated => p.hand = <<>>
              /\ (~p.eliminated /\ p.hand # <<>>) =>
                    /\ Len(p.hand) = 3
                    /\ \A n \in 1..3 : p.hand[n] \notin {NullCard, UndefinedCard}

\* C13: after a departure of the host that leaves players behind, hostId is
\* the id of the first remaining player; and in every state hostId is the id
\* of a player of the room
C13_HostIsAPlayer ==
    /\ [](\A rid \in DOMAIN rooms :
              \E i \in Idx(rooms[rid].players) :
                  rooms[rid].players[i + 1].id = rooms[rid].hostId)
    /\ [][\A sid \in connected, rid \in DOMAIN rooms \cap DOMAIN rooms' :
              (/\ disconnect(sid) \/ disconnecting_srv(sid)
               /\ rooms[rid].hostId = sid)
                  => rooms'[rid].hostId = rooms'[rid].players[1].id
        ]_vars

\* C14: when the socket that is the only one left in a room disconnects, the
\* room is deleted from the registry; and in every state every room of the
\* registry has at least one player
C14_EmptyRoomsAreDeleted ==
    /\ [](\A rid \in DOMAIN rooms : Len(rooms[rid].players) >= 1)
    /\ [][\A sid \in connected, rid \in DOMAIN rooms :
              (/\ disconnect(sid) \/ disconnecting_srv(sid)
               /\ \A i \in Idx(rooms[rid].players) : rooms[rid].players[i + 1].id = sid)
                  => rid \notin DOMAIN rooms'
        ]_vars

\* a request of part_000 that fails validation: join_room on an unknown room
\* or on a room that is PLAYING, start_game by a socket that is not the host,
\* draw_card by a player who is not at index turn, replace_card by a player
\* with no staged card
FailsValidation(sid, rid) ==
    \/ /\ join_room(sid, rid)
       /\ rid \notin DOMAIN rooms \/ rooms[rid].status = "PLAYING"
    \/ /\ \E k \in 0..(NumShuffles - 1) : start_game(sid, rid, k)
       /\ rid \in DOMAIN rooms
       /\ rooms[rid].hostId # sid
    \/ /\ \E k \in 0..(NumShuffles - 1) : draw_card(sid, rid, k)
       /\ rid \in DOMAIN rooms
       /\ FindIndexById(rooms[rid].players, sid) # -1
       /\ ~(/\ rooms[rid].turn \in Idx(rooms[rid].players)
            /\ rooms[rid].players[rooms[rid].turn + 1].id = sid)
    \/ /\ \E c \in DiscardIds : replace_card(sid, rid, c)
       /\ rid \in DOMAIN rooms
       /\ FindIndexById(rooms[rid].players, sid) # -1
       /\ rooms[rid].players[FindIndexById(rooms[rid].players, sid) + 1].currentDrawnCard
              = NullCard

\* C15: a request that fails validation leaves the registry unchanged,
\* broadcasts no room_data, and leaves the server running
C15_RejectionChangesNothing ==
    [][\A sid \in connected, rid \in RoomIds :
          (variant = "part_000" /\ FailsValidation(sid, rid)) =>
              /\ rooms' = rooms
              /\ ~Emits(emitted', "room_data")
              /\ err' = "none"
      ]_vars

\* C16: no handler raises an error that nothing catches
C16_NoUnhandledError ==
    err \notin {"TypeError: players[turn] is undefined",
                "TypeError: card in hand is undefined",
                "TypeError: openJoker is null",
                "TypeError: caller has no score",
                "TypeError: player is undefined"}

\* C17: the search of replace_card for the next turn always comes to an end
C17_TurnSearchTerminates == err # "hang: replace_card loops forever"

\* C18: a resolved declare_show at currentRound >= roundLimit eliminates
\* exactly the non-eliminated players whose total after scoring is the highest
\* among the non-eliminated and resets currentRound to 1; below the limit it
\* eliminates nobody and raises currentRound by one; and in every state of a
\* room created with roundLimit >= 1, 1 <= currentRound <= roundLimit
C18_EliminationAtRoundLimit ==
    /\ [](\A rid \in DOMAIN rooms :
              (variant = "part_000" /\ rooms[rid].roundLimit >= 1) =>
                  /\ 1 <= rooms[rid].currentRound
                  /\ rooms[rid].currentRound <= rooms[rid].roundLimit)
    /\ [][\A sid \in connected, rid \in DOMAIN rooms :
              (variant = "part_000" /\ ShowResolved(sid, rid)) =>
                LET room == rooms[rid]
                    ps == room.players
                    ps2 == rooms'[rid].players
                    highest == MaxOf({ps2[i + 1].totalScore : i \in Active(ps)})
                IN  /\ Len(ps2) = Len(ps)
                    /\ IF room.currentRound >= room.roundLimit
                       THEN /\ rooms'[rid].currentRound = 1
                            /\ \A i \in Idx(ps) :
                                  ps2[i + 1].eliminated <=>
                                      \/ ps[i + 1].eliminated
                                      \/ ps2[i + 1].totalScore = highest
                       ELSE /\ rooms'[rid].currentRound = room.currentRound + 1
                            /\ \A i \in Idx(ps) :
                                  ps2[i + 1].eliminated <=> ps[i + 1].eliminated
        ]_vars

\* a show at the round limit of a room with roundLimit 2 has just eliminated
\* two players of different sockets who were tied at the highest total
C18_Witness ==
    \E rid \in DOMAIN rooms : \E i, j \in Idx(rooms[rid].players) :
        /\ variant = "part_000"
        /\ Emits(emitted, "penalty") \/ Emits(emitted, "celebration")
        /\ rooms[rid].roundLimit = 2
        /\ rooms[rid].currentRound = 1
        /\ rooms[rid].players[i + 1].id # rooms[rid].players[j + 1].id
        /\ rooms[rid].players[i + 1].eliminated
        /\ rooms[rid].players[j + 1].eliminated
        /\ rooms[rid].players[i + 1].totalScore = rooms[rid].players[j + 1].totalScore
        /\ rooms[rid].players[i + 1].totalScore > 0

C20_WinnerWithinBound ==
    /\ [](\A rid \in DOMAIN rooms :
              LET n == Len(rooms[rid].players)
                  R == rooms[rid].roundLimit
              IN  (variant = "part_000" /\ n >= 2 /\ R >= 1 /\ shows[rid] >= R * (n - 1))
                      => ActiveCount(rooms[rid]) <= 1)
    /\ [][\A sid \in connected, rid \in DOMAIN rooms :
              (variant = "part_000" /\ ShowResolved(sid, rid)) =>
                LET n == Len(rooms[rid].players)
                    R == rooms[rid].roundLimit
                IN  /\ (n >= 2 /\ rooms[rid].currentRound >= R)
                          => ActiveCount(rooms'[rid]) < ActiveCount(rooms[rid])
                    /\ (n >= 2 /\ R >= 1 /\ shows'[rid] >= R * (n - 1))
                          => rooms'[rid].status = "WINNER"
        ]_vars
    /\ [][\A rid \in DOMAIN rooms \cap DOMAIN rooms' :
              (variant = "part_000"
                  /\ Len(rooms'[rid].players) >= Len(rooms[rid].players)) =>
                \A i \in Idx(rooms[rid].players) :
                    rooms[rid].players[i + 1].eliminated
                        => rooms'[rid].players[i + 1].eliminated
        ]_vars

\* the second show of a room of two players with roundLimit 2 has just
\* eliminated a player and set status WINNER
C20_Witness ==
    \E rid \in DOMAIN rooms : \E i \in Idx(rooms[rid].players) :
        /\ variant = "part_000"
        /\ Emits(emitted, "penalty") \/ Emits(emitted, "celebration")
        /\ Len(rooms[rid].players) = 2
        /\ rooms[rid].players[1].id # rooms[rid].players[2].id
        /\ rooms[rid].roundLimit = 2
        /\ shows[rid] = 2
        /\ rooms[rid].players[i + 1].eliminated
        /\ rooms[rid].status = "WINNER"

====
